---- MODULE Spec2Model ----
(***************************************************************************)
(* target-explorer: the producer thread (snapshot scraper, then the Docker *)
(* event streamer) pushes events into a mutex-guarded eventLog; the        *)
(* consumer goroutine wakes on a timer, flushes the log, coalesces the     *)
(* events per container, loads the Prometheus configuration file, diffs,   *)
(* rewrites the file and POSTs a reload.                                   *)
(***************************************************************************)
EXTENDS Integers, Sequences, FiniteSets, TLC

\* ------------------------------------------------------------- bounds
\* Events created over a run (snapshot and stream together).
MaxPush == 2
\* Wake-ups of the consumer's timer loop over a run.
MaxCycles == 2
\* Length of an event sequence handed to applyEventFilter on its own.
MaxBatch == 3

\* ---------------------------------------------------- program constants
startEvent == 1
runningEvent == 2
stopEvent == 3
dieEvent == 4

dockerHostAddress == "host.docker.internal"
metricsPort == "2112/tcp"
globalScrapeInterval == "60s"

\* eventTable[name]: a Go map lookup, the zero eventType for a missing key.
eventTable(name) ==
    CASE name = "start" -> startEvent
      [] name = "running" -> runningEvent
      [] name = "stop" -> stopEvent
      [] name = "die" -> dieEvent
      [] OTHER -> 0

\* strconv.ParseBool: the accepted spellings, anything else is an error
\* and the value false.
ParseBool(label) ==
    IF label \in {"1", "t", "T", "TRUE", "true", "True"}
    THEN [val |-> TRUE, err |-> FALSE]
    ELSE IF label \in {"0", "f", "F", "FALSE", "false", "False"}
    THEN [val |-> FALSE, err |-> FALSE]
    ELSE [val |-> FALSE, err |-> TRUE]

\* ------------------------------------------------------------- inputs
Containers == {"w1", "w2", "w3"}

\* The compose service label of each container: w2 is w1's service
\* recreated under a new container ID.
ServiceOf(w) == IF w = "w3" THEN "svc-b" ELSE "svc-a"

\* Action names a stream message may carry ("kill" stands for any name
\* the eventTable does not hold).
StreamActions == {"start", "stop", "die", "kill"}

\* One entry of ContainerList's result.
Listed(id, names, labels) == [ID |-> id, Names |-> names, Labels |-> labels]
NoLabel == <<>>
Label(v) == [scrape_target |-> v]

\* Results of ContainerList (the empty one is also the result of a failed
\* listing: containers is nil and the loop body never runs). The daemon
\* lists every container under at least one name.
ListingInputs ==
    { <<>>,
      << Listed("w1", <<"svc-a">>, Label("true")) >>,
      << Listed("w1", <<"svc-a">>, Label("junk")),
         Listed("w3", <<"svc-b">>, Label("true")) >>,
      << Listed("w2", <<"svc-a">>, NoLabel),
         Listed("w3", <<"svc-b">>, Label("false")) >> }

\* Results of ContainerInspect: an error, or NetworkSettings.Ports, a map
\* from port to its list of host bindings (an exposed, unpublished port
\* has an empty list).
Binding(p) == [HostPort |-> p]
InspectErr == [err |-> TRUE, Ports |-> <<>>]
InspectOk(ports) == [err |-> FALSE, Ports |-> ports]
InspectInputs ==
    { InspectErr,
      InspectOk(<<>>),
      InspectOk([x \in {metricsPort} |-> <<>>]),
      InspectOk([x \in {metricsPort} |-> << Binding("32000") >>]),
      InspectOk([x \in {metricsPort} |-> << Binding("32001") >>]) }

\* ---------------------------------------------------------- Go maps
EmptyMap == <<>>
MapSet(m, k, v) == [x \in (DOMAIN m) \cup {k} |-> IF x = k THEN v ELSE m[x]]
MapDelete(m, k) == [x \in (DOMAIN m) \ {k} |-> m[x]]

\* The orders in which a range over a Go map with key set S may run.
Orders(S) ==
    { s \in [1..Cardinality(S) -> S] :
        \A i, j \in 1..Cardinality(S) : i # j => s[i] # s[j] }

\* -------------------------------------------------- the persisted file
\* prometheus-local/prometheus.yaml: absent, unparseable bytes, zero bytes,
\* or a YAML document with its scrape_configs.
Job(name, statics) == [JobName |-> name, StaticConfigs |-> statics]
Static(targets) == [Targets |-> targets]
NoFile == [kind |-> "missing", ScrapeInterval |-> "", ScrapeConfigs |-> <<>>]
Garbage == [kind |-> "garbage", ScrapeInterval |-> "", ScrapeConfigs |-> <<>>]
ZeroBytes == [kind |-> "empty", ScrapeInterval |-> "", ScrapeConfigs |-> <<>>]
Doc(configs) ==
    [kind |-> "doc", ScrapeInterval |-> globalScrapeInterval,
     ScrapeConfigs |-> configs]

\* fmt.Sprintf("%s:%s", host, port)
HostPort(host, port) == <<host, port>>
Addr32000 == HostPort(dockerHostAddress, "32000")

\* The file as the process may find it at start: left by a prior run or
\* edited by hand.
FileInputs ==
    { NoFile,
      Garbage,
      Doc(<< Job("svc-a", << Static(<< Addr32000 >>) >>) >>),
      Doc(<< Job("svc-a", << Static(<< Addr32000 >>) >>),
             Job("svc-b", << Static(<< HostPort("10.0.0.5", "9100") >>) >>) >>),
      Doc(<< Job("svc-b", << >>) >>),
      Doc(<< Job("svc-b", << Static(<< >>) >>) >>) }

VARIABLES
    events,         \* el.events
    mu,             \* el.mu: "free", or the thread holding it
    ppc,            \* producer thread: where it is
    pret,           \* producer thread: where push returns to
    containers,     \* scraperImpl.produceEventsFor: the listing
    idx,            \* scraperImpl.produceEventsFor: the range index
    pending,        \* the argument of the push in progress (<<e>>, or <<>>)
    created,        \* events created so far (the clock of recordedAt)
    cpc,            \* consumer goroutine: where it is
    cycles,         \* wake-ups of the timer loop so far
    drained,        \* consume: events
    filteredEvents, \* consume: filteredEvents
    stateMap,       \* consume: stateMap (diff changes it in place)
    loadErr,        \* consume: err of getCurrentState
    pubErr,         \* consume: err of publish
    file,           \* prometheus-local/prometheus.yaml
    posts,          \* reload POSTs sent so far
    panicked,       \* a goroutine panicked: the process is gone
    killed,         \* the process was terminated from outside
    \* history, read by the properties only
    pushed,         \* the events whose push completed, in that order
    flushes,        \* the results of the flushes so far, in order
    loaded,         \* the state getCurrentState returned in this cycle
    inspected,      \* the inspect results diff saw in this cycle
    fileBefore,     \* the file when this cycle started
    cyclePosts,     \* reload POSTs sent in this cycle
    cycleReads,     \* reads of the file attempted in this cycle
    cycleWrites,    \* opens-with-truncate and encodes done in this cycle
    stale,          \* "clean", "failed" (a publish failed), "healed", "unknown"
    ideal,          \* the target state had no publish ever failed
    publishedBy,    \* job key -> container whose Start/Running published it
    published       \* << m >>: the file is what publish(m) wrote, else << >>

vars ==
    << events, mu, ppc, pret, containers, idx, pending, created, cpc, cycles,
       drained, filteredEvents, stateMap, loadErr, pubErr, file, posts,
       panicked, killed, pushed, flushes, loaded, inspected, fileBefore, cyclePosts,
       cycleReads, cycleWrites, stale, ideal, publishedBy, published >>

prodVars == << ppc, pret, containers, idx, pending, created >>
consVars ==
    << cpc, cycles, drained, filteredEvents, stateMap, loadErr, pubErr >>
cycleHist ==
    << loaded, inspected, fileBefore, cyclePosts, cycleReads, cycleWrites >>
hist == << pushed, flushes, stale, ideal, publishedBy, published >>

Event(a, id, n, t) ==
    [action |-> a, containerID |-> id, name |-> n, recordedAt |-> t]

Alive == ~panicked /\ ~killed

Init ==
    /\ events = <<>>
    /\ mu = "free"
    /\ ppc = "list"
    /\ pret = "list"
    /\ containers = <<>>
    /\ idx = 1
    /\ pending = <<>>
    /\ created = 0
    /\ cpc = "sleep"
    /\ cycles = 0
    /\ drained = <<>>
    /\ filteredEvents = EmptyMap
    /\ stateMap = EmptyMap
    /\ loadErr = FALSE
    /\ pubErr = FALSE
    /\ file \in FileInputs
    /\ posts = 0
    /\ panicked = FALSE
    /\ killed = FALSE
    /\ pushed = <<>>
    /\ flushes = <<>>
    /\ loaded = EmptyMap
    /\ inspected = EmptyMap
    /\ fileBefore = file
    /\ cyclePosts = 0
    /\ cycleReads = 0
    /\ cycleWrites = 0
    /\ stale = "clean"
    /\ ideal = EmptyMap
    /\ publishedBy = EmptyMap
    /\ published = <<>>

\* ------------------------------------------------------------ eventLog
\* push: el.mu.Lock()
PushLock ==
    /\ Alive
    /\ ppc = "push"
    /\ mu = "free"
    /\ mu' = "producer"
    /\ ppc' = "append"
    /\ UNCHANGED << events, pret, containers, idx, pending, created, consVars,
                    file, posts, panicked, killed, cycleHist, hist >>

\* el.events after push's append
pushAppend(evs, e) == Append(evs, e)

\* push: the append, and the deferred Unlock on return
PushAppend ==
    /\ Alive
    /\ ppc = "append"
    /\ events' = pushAppend(events, pending[1])
    /\ pushed' = Append(pushed, pending[1])
    /\ mu' = "free"
    /\ pending' = <<>>
    /\ ppc' = pret
    /\ UNCHANGED << pret, containers, idx, created, consVars, file, posts,
                    panicked, killed, cycleHist, flushes, stale, ideal,
                    publishedBy,
                    published >>

\* ----------------------------------------------------------- producers
\* scraperImpl.produceEventsFor: ContainerList (a failed listing is logged
\* and leaves containers nil)
ScraperList ==
    /\ Alive
    /\ ppc = "list"
    /\ \E l \in ListingInputs : containers' = l
    /\ idx' = 1
    /\ ppc' = "scan"
    /\ UNCHANGED << events, mu, pret, pending, created, consVars, file, posts,
                    panicked, killed, cycleHist, hist >>

\* Whether the scraper emits a Running event for a listed container.
isTarget(container) ==
    /\ "scrape_target" \in DOMAIN container.Labels
    /\ ParseBool(container.Labels["scrape_target"]).val

\* run calling the scraper again when it has returned
afterScraperAgain == "list"

\* producerManager.run: p++ after the scraper returned, the event streamer
afterScraper == "stream"

\* scraperImpl.produceEventsFor: one round of the range over containers;
\* after the last one the manager moves on to the event streamer.
ScraperNext ==
    /\ Alive
    /\ ppc = "scan"
    /\ IF idx > Len(containers)
       THEN /\ ppc' = afterScraper
            /\ UNCHANGED << pret, idx, pending, created, panicked >>
       ELSE LET container == containers[idx] IN
            IF ~isTarget(container)
            THEN /\ idx' = idx + 1
                 /\ UNCHANGED << ppc, pret, pending, created, panicked >>
            ELSE IF Len(container.Names) = 0
            THEN \* container.Names[0]: index out of range
                 /\ panicked' = TRUE
                 /\ UNCHANGED << ppc, pret, idx, pending, created >>
            ELSE /\ pending' = << Event(runningEvent, container.ID,
                                        container.Names[1], created + 1) >>
                 /\ created' = created + 1
                 /\ idx' = idx + 1
                 /\ ppc' = "push"
                 /\ pret' = "scan"
                 /\ UNCHANGED panicked
    /\ UNCHANGED << events, mu, containers, consVars, file, posts, killed,
                    cycleHist, hist >>

\* eventStreamerImpl.produceEventsFor: a message arrives on msgEvents
StreamMsg ==
    /\ Alive
    /\ ppc = "stream"
    /\ created < MaxPush
    /\ \E a \in StreamActions, w \in Containers :
          pending' = << Event(eventTable(a), w, ServiceOf(w), created + 1) >>
    /\ created' = created + 1
    /\ ppc' = "push"
    /\ pret' = "stream"
    /\ UNCHANGED << events, mu, containers, idx, consVars, file, posts,
                    panicked, killed, cycleHist, hist >>

\* eventStreamerImpl.produceEventsFor: an error arrives on errEvents and is
\* logged
StreamErr ==
    /\ Alive
    /\ ppc = "stream"
    /\ UNCHANGED vars

\* ------------------------------------------------------------ consumer
\* main's goroutine: time.Sleep returns and consume is called
ConsumeStart ==
    /\ Alive
    /\ cpc = "sleep"
    /\ cycles < MaxCycles
    /\ cycles' = cycles + 1
    /\ cpc' = "flush"
    /\ drained' = <<>>
    /\ filteredEvents' = EmptyMap
    /\ stateMap' = EmptyMap
    /\ loadErr' = FALSE
    /\ pubErr' = FALSE
    /\ loaded' = EmptyMap
    /\ inspected' = EmptyMap
    /\ fileBefore' = file
    /\ cyclePosts' = 0
    /\ cycleReads' = 0
    /\ cycleWrites' = 0
    /\ stale' = IF stale = "healed" THEN "clean" ELSE stale
    /\ UNCHANGED << events, mu, prodVars, file, posts, panicked, killed,
                    pushed, flushes, ideal, publishedBy,
                    published >>

\* flush: el.mu.Lock()
FlushLock ==
    /\ Alive
    /\ cpc = "flush"
    /\ mu = "free"
    /\ mu' = "consumer"
    /\ cpc' = "flushing"
    /\ UNCHANGED << events, prodVars, cycles, drained, filteredEvents,
                    stateMap, loadErr, pubErr, file, posts, panicked, killed,
                    cycleHist, hist >>

\* flush: out, the copy of el.events
flushOut(evs) == evs

\* flush without its el.events = nil
flushRestKept(evs) == evs

\* flush: el.events = nil
flushRest(evs) == <<>>

\* flush returning with the lock still held
flushNoUnlock == "consumer"

\* flush: defer el.mu.Unlock(), run when flush returns
flushUnlock == "free"

\* consume with its early return on an empty flush result left out
noEventsNever(evs) == FALSE

\* consume: len(events) == 0
noEvents(evs) == Len(evs) = 0

\* flush: copy, clear, and the deferred Unlock on return; consume returns
\* at once on an empty result
FlushBody ==
    /\ Alive
    /\ cpc = "flushing"
    /\ drained' = flushOut(events)
    /\ events' = flushRest(events)
    /\ flushes' = Append(flushes, flushOut(events))
    /\ mu' = flushUnlock
    /\ cpc' = IF noEvents(flushOut(events)) THEN "sleep" ELSE "filter"
    /\ UNCHANGED << prodVars, cycles, filteredEvents, stateMap, loadErr, pubErr,
                    file,
                    posts, panicked, killed, cycleHist, pushed, stale, ideal,
                    publishedBy,
                    published >>

RECURSIVE applyEventFilterFirst(_)
\* applyEventFilter keeping the first event of a containerID, not the last
applyEventFilterFirst(evs) ==
    IF evs = <<>>
    THEN EmptyMap
    ELSE LET rest == applyEventFilterFirst(Tail(evs)) IN
         MapSet(rest, Head(evs).containerID, Head(evs))

RECURSIVE applyEventFilterFrom(_, _)
applyEventFilterFrom(evs, filtered) ==
    IF evs = <<>>
    THEN filtered
    ELSE applyEventFilterFrom(Tail(evs),
                              MapSet(filtered, Head(evs).containerID, Head(evs)))

\* consumer.applyEventFilter: the range over events, overwriting per
\* containerID
applyEventFilter(evs) == applyEventFilterFrom(evs, EmptyMap)

ApplyEventFilter ==
    /\ Alive
    /\ cpc = "filter"
    /\ filteredEvents' = applyEventFilter(drained)
    /\ cpc' = "load"
    /\ UNCHANGED << events, mu, prodVars, cycles, drained, stateMap, loadErr,
                    pubErr, file, posts, panicked, killed, cycleHist, hist >>

\* What a call returns: a panic, an error, or a value.
Panic == [panic |-> TRUE, err |-> FALSE, val |-> <<>>]
Err == [panic |-> FALSE, err |-> TRUE, val |-> <<>>]
Ok(v) == [panic |-> FALSE, err |-> FALSE, val |-> v]

\* getCurrentState reading the first scrape config only
readScrapeConfigsFirst(configs, m) ==
    IF configs = <<>>
    THEN Ok(m)
    ELSE Ok(MapSet(m, Head(configs).JobName,
                   Head(configs).StaticConfigs[1].Targets[1]))

RECURSIVE readScrapeConfigs(_, _)
\* getCurrentState: the range over prometheusConf.ScrapeConfigs
readScrapeConfigs(configs, m) ==
    IF configs = <<>>
    THEN Ok(m)
    ELSE LET scrapeConfig == Head(configs) IN
         IF Len(scrapeConfig.StaticConfigs) = 0
         THEN Panic \* StaticConfigs[0]: index out of range
         ELSE IF Len(scrapeConfig.StaticConfigs[1].Targets) = 0
         THEN Panic \* Targets[0]: index out of range
         ELSE readScrapeConfigs(Tail(configs),
                  MapSet(m, scrapeConfig.JobName,
                         scrapeConfig.StaticConfigs[1].Targets[1]))

\* getCurrentState taking every failure for a missing file
getCurrentStateLenient(f, readErr) ==
    IF readErr \/ f.kind \in {"missing", "garbage"}
    THEN Ok(EmptyMap)
    ELSE readScrapeConfigs(f.ScrapeConfigs, EmptyMap)

\* consumer.getCurrentState on file f; readErr: os.ReadFile fails with an
\* error other than "does not exist". A file of zero bytes unmarshals
\* without error into a configuration with no scrape_configs.
getCurrentState(f, readErr) ==
    IF readErr THEN Err
    ELSE IF f.kind = "missing" THEN Ok(EmptyMap)
    ELSE IF f.kind = "garbage" THEN Err
    ELSE readScrapeConfigs(f.ScrapeConfigs, EmptyMap)

\* The old state is no longer known to be the one a failed publish left.
Forget(s) == IF s = "failed" THEN "unknown" ELSE s

GetCurrentState ==
    /\ Alive
    /\ cpc = "load"
    /\ \E readErr \in BOOLEAN :
          LET r == getCurrentState(file, readErr) IN
          IF r.panic
          THEN /\ panicked' = TRUE
               /\ UNCHANGED << cpc, stateMap, loadErr, loaded, stale >>
          ELSE IF r.err
          THEN /\ loadErr' = TRUE
               /\ cpc' = "sleep"
               /\ stale' = Forget(stale)
               /\ UNCHANGED << panicked, stateMap, loaded >>
          ELSE /\ stateMap' = r.val
               /\ loaded' = r.val
               /\ cpc' = "diff"
               /\ UNCHANGED << panicked, loadErr, stale >>
    /\ cycleReads' = cycleReads + 1
    /\ UNCHANGED << events, mu, prodVars, cycles, drained, filteredEvents,
                    pubErr, file, posts, killed, inspected, fileBefore,
                    cyclePosts, cycleWrites, pushed, flushes, ideal,
                    publishedBy,
                    published >>

\* consumer.lookupHostMappingFor, given what ContainerInspect returned
\* (an error also when the 500 ms timeout fires)
lookupHostMappingFor(inspect) ==
    IF inspect.err THEN Err
    ELSE IF metricsPort \in DOMAIN inspect.Ports
    THEN IF Len(inspect.Ports[metricsPort]) = 0
         THEN Panic \* hostMapping[0]: index out of range
         ELSE Ok(HostPort(dockerHostAddress,
                          inspect.Ports[metricsPort][1].HostPort))
    ELSE Err

\* diff, Stop/Die: the key the entry is deleted under
deleteKey(event) == event.containerID

\* diff storing the entry under the containerID
upsertKeyID(event) == event.containerID

\* diff, Start/Running: the key the entry is stored under
upsertKey(event) == event.name

\* diff returning a new, empty map, not the map it was handed
diffFresh(evmap, m, order, ins) == Ok(EmptyMap)

RECURSIVE diff(_, _, _, _)
\* consumer.diff: the range over the events map, run in the order `order`
\* of its keys, with ins[w] what ContainerInspect returns for w
diff(evmap, m, order, ins) ==
    IF order = <<>>
    THEN Ok(m)
    ELSE LET event == evmap[Head(order)] IN
         IF event.action \in {startEvent, runningEvent}
         THEN LET r == lookupHostMappingFor(ins[event.containerID]) IN
              IF r.panic THEN Panic
              ELSE IF r.err THEN diff(evmap, m, Tail(order), ins)
              ELSE diff(evmap, MapSet(m, upsertKey(event), r.val),
                        Tail(order), ins)
         ELSE IF event.action \in {stopEvent, dieEvent}
         THEN diff(evmap, MapDelete(m, deleteKey(event)), Tail(order), ins)
         ELSE diff(evmap, m, Tail(order), ins)

\* The containers diff inspects.
Lookups(evmap) ==
    { w \in DOMAIN evmap : evmap[w].action \in {startEvent, runningEvent} }

\* consume: scrapeTargets is the map diff returns, stateMap itself
scrapeTargets == stateMap

Diff ==
    /\ Alive
    /\ cpc = "diff"
    /\ \E order \in Orders(DOMAIN filteredEvents),
          ins \in [Lookups(filteredEvents) -> InspectInputs] :
          LET r == diff(filteredEvents, stateMap, order, ins)
              i == diff(filteredEvents, ideal, order, ins)
          IN  IF r.panic
              THEN /\ panicked' = TRUE
                   /\ inspected' = ins
                   /\ UNCHANGED << cpc, stateMap, ideal >>
              ELSE /\ stateMap' = r.val
                   /\ inspected' = ins
                   /\ ideal' = IF stale = "clean" THEN r.val ELSE i.val
                   /\ cpc' = "publish"
                   /\ UNCHANGED panicked
    /\ UNCHANGED << events, mu, prodVars, cycles, drained, filteredEvents,
                    loadErr, pubErr, file, posts, killed, loaded, fileBefore,
                    cyclePosts, cycleReads, cycleWrites, pushed, flushes,
                    stale,
                    publishedBy,
                    published >>

\* consume returning when publish failed
afterPublishReturn(err) == IF err THEN "sleep" ELSE "signal"

\* consume: where it goes once publish returned err (an error is logged)
afterPublish(err) == "signal"

\* A publish failed: the file is no longer what an unfailing run holds.
Failed(s) == IF s = "unknown" THEN s ELSE "failed"

\* os.OpenFile with O_CREATE|O_TRUNC: the file once the call succeeded
openTruncate(f) == ZeroBytes

\* publish: the document is built, then the file opened and truncated
PublishOpen ==
    /\ Alive
    /\ cpc = "publish"
    /\ \E ok \in BOOLEAN :
          IF ok
          THEN /\ file' = openTruncate(file)
               /\ published' = <<>>
               /\ cycleWrites' = cycleWrites + 1
               /\ cpc' = "encode"
               /\ UNCHANGED << pubErr, stale >>
          ELSE /\ pubErr' = TRUE
               /\ stale' = Failed(stale)
               /\ cpc' = afterPublish(TRUE)
               /\ UNCHANGED << file, published, cycleWrites >>
    /\ UNCHANGED << events, mu, prodVars, cycles, drained, filteredEvents,
                    stateMap, loadErr, posts, panicked, killed, loaded, inspected,
                    fileBefore, cyclePosts, cycleReads, pushed, flushes,
                    ideal, publishedBy >>

\* publish losing the first entry the range yields
promConfLossy(targets, order) ==
    [i \in 1..(Len(order) - 1) |->
        Job(order[i + 1], << Static(<< targets[order[i + 1]] >>) >>)]

\* publish: promConf.ScrapeConfigs, one job per entry of the map, appended
\* in the order the range over the map runs
promConf(targets, order) ==
    [i \in 1..Len(order) |->
        Job(order[i], << Static(<< targets[order[i]] >>) >>)]

\* What a failed Encode may leave of the document: nothing, bytes cut
\* inside an entry, or the bytes up to the end of an entry.
PartialWrites(configs) ==
    {ZeroBytes, Garbage}
        \cup { Doc(SubSeq(configs, 1, k)) : k \in 0..(Len(configs) - 1) }

\* The names a successful diff stored an address under.
Upserts(evmap, ins, n) ==
    { w \in Lookups(evmap) :
        /\ evmap[w].name = n
        /\ ~lookupHostMappingFor(ins[w]).err }

\* publish: yaml's Encode writes the document to the truncated file
PublishEncode ==
    /\ Alive
    /\ cpc = "encode"
    /\ \E order \in Orders(DOMAIN scrapeTargets), ok \in BOOLEAN :
          LET configs == promConf(scrapeTargets, order) IN
          IF ok
          THEN /\ file' = Doc(configs)
               /\ stale' = IF stale = "failed" THEN "healed" ELSE stale
               /\ publishedBy' =
                     [n \in DOMAIN scrapeTargets |->
                        IF Upserts(filteredEvents, inspected, n) # {}
                        THEN Upserts(filteredEvents, inspected, n)
                        ELSE IF n \in DOMAIN publishedBy
                        THEN publishedBy[n] ELSE {}]
               /\ published' = << scrapeTargets >>
               /\ cpc' = afterPublish(FALSE)
               /\ UNCHANGED pubErr
          ELSE /\ file' \in PartialWrites(configs)
               /\ pubErr' = TRUE
               /\ stale' = Failed(stale)
               /\ published' = <<>>
               /\ cpc' = afterPublish(TRUE)
               /\ UNCHANGED publishedBy
    /\ cycleWrites' = cycleWrites + 1
    /\ UNCHANGED << events, mu, prodVars, cycles, drained, filteredEvents,
                    stateMap, loadErr, posts, panicked, killed, loaded, inspected,
                    fileBefore, cyclePosts, cycleReads, pushed, flushes,
                    ideal >>

\* consumer.sendSignal: one POST to the reload endpoint; a transport error
\* or a status other than 200 is returned and logged by consume
SendSignal ==
    /\ Alive
    /\ cpc = "signal"
    /\ posts' = posts + 1
    /\ cyclePosts' = cyclePosts + 1
    /\ cpc' = "sleep"
    /\ UNCHANGED << events, mu, prodVars, cycles, drained, filteredEvents,
                    stateMap, loadErr, pubErr, file, panicked, killed, loaded,
                    inspected, fileBefore, cycleReads, cycleWrites, hist >>

\* The process is terminated from outside, at any point.
Terminate ==
    /\ Alive
    /\ killed' = TRUE
    /\ UNCHANGED << events, mu, prodVars, consVars, file, posts, panicked,
                    cycleHist, hist >>

Next ==
    \/ ScraperList
    \/ ScraperNext
    \/ StreamMsg
    \/ StreamErr
    \/ PushLock
    \/ PushAppend
    \/ ConsumeStart
    \/ FlushLock
    \/ FlushBody
    \/ ApplyEventFilter
    \/ GetCurrentState
    \/ Diff
    \/ PublishOpen
    \/ PublishEncode
    \/ SendSignal
    \/ Terminate

Spec == Init /\ [][Next]_vars

\* ------------------------------------------- applyEventFilter on its own
\* Every event the two producers can create.
EventInputs ==
    { Event(eventTable(a), w, ServiceOf(w), 0) :
        a \in StreamActions, w \in Containers }
        \cup { Event(runningEvent, w, ServiceOf(w), 0) : w \in Containers }

\* The event sequences of length n, recordedAt the place in the sequence.
Batches(n) ==
    { [i \in 1..n |-> [s[i] EXCEPT !.recordedAt = i]] :
        s \in [1..n -> EventInputs] }

\* consume has just flushed a batch and is about to call applyEventFilter.
InitFilter ==
    /\ \E n \in 1..MaxBatch : drained \in Batches(n)
    /\ events = <<>>
    /\ mu = "free"
    /\ ppc = "stream"
    /\ pret = "stream"
    /\ containers = <<>>
    /\ idx = 1
    /\ pending = <<>>
    /\ created = Len(drained)
    /\ cpc = "filter"
    /\ cycles = 1
    /\ filteredEvents = EmptyMap
    /\ stateMap = EmptyMap
    /\ loadErr = FALSE
    /\ pubErr = FALSE
    /\ file = NoFile
    /\ posts = 0
    /\ panicked = FALSE
    /\ killed = FALSE
    /\ pushed = drained
    /\ flushes = << drained >>
    /\ loaded = EmptyMap
    /\ inspected = EmptyMap
    /\ fileBefore = file
    /\ cyclePosts = 0
    /\ cycleReads = 0
    /\ cycleWrites = 0
    /\ stale = "clean"
    /\ ideal = EmptyMap
    /\ publishedBy = EmptyMap
    /\ published = <<>>

NextFilter == ApplyEventFilter

SpecFilter == InitFilter /\ [][NextFilter]_vars

\* ---------------------------------------------------------- properties
RECURSIVE Flatten(_)
Flatten(ss) == IF ss = <<>> THEN <<>> ELSE Head(ss) \o Flatten(Tail(ss))

Range(s) == { s[i] : i \in DOMAIN s }

\* C1: the flush results so far, one after the other, followed by what is
\* still buffered, are exactly the events whose push completed, in the
\* order the pushes completed: every pushed event is in one flush result or
\* still buffered, none is in two, and the order is kept.
C1_EachEventOnceInPushOrder ==
    LET all == Flatten(flushes) IN
    /\ all \o events = pushed
    /\ \A i, j \in DOMAIN all : i # j => all[i] # all[j]

\* C1 witness: two flushes each returned an event, the second event pushed
\* after the first flush.
C1_Witness ==
    /\ Len(flushes) = 2
    /\ flushes[1] # <<>>
    /\ flushes[2] # <<>>
    /\ Len(pushed) = 2

\* C4: after applyEventFilter the map's keys are exactly the containerIDs
\* of the drained sequence, and the value of each key is the event at the
\* last place of the sequence that carries this containerID.
C4_LastWriteWins ==
    cpc = "load" =>
        /\ DOMAIN filteredEvents = { e.containerID : e \in Range(drained) }
        /\ \A i \in DOMAIN drained :
              (\A j \in DOMAIN drained :
                   drained[j].containerID = drained[i].containerID => j <= i)
                  => filteredEvents[drained[i].containerID] = drained[i]

\* C4 witness: [(w1,Start),(w1,Die),(w3,Running)] was coalesced to
\* {w1: Die, w3: Running}.
C4_Witness ==
    /\ cpc = "load"
    /\ Len(drained) = 3
    /\ drained[1].containerID = "w1" /\ drained[1].action = startEvent
    /\ drained[2].containerID = "w1" /\ drained[2].action = dieEvent
    /\ drained[3].containerID = "w3" /\ drained[3].action = runningEvent
    /\ DOMAIN filteredEvents = {"w1", "w3"}
    /\ filteredEvents["w1"].action = dieEvent
    /\ filteredEvents["w3"].action = runningEvent

\* The target state a file holds, as getCurrentState reads it.
StateOf(f) == getCurrentState(f, FALSE).val

\* Whether an inspect result yields an address for the metrics port, and
\* which.
Resolves(r) ==
    /\ ~r.err
    /\ metricsPort \in DOMAIN r.Ports
    /\ Len(r.Ports[metricsPort]) > 0
ResolvedAddr(r) == <<dockerHostAddress, r.Ports[metricsPort][1].HostPort>>

\* The coalesced Stop/Die events and the resolved Start/Running events of
\* this cycle.
Stopped == { w \in DOMAIN filteredEvents :
               filteredEvents[w].action \in {stopEvent, dieEvent} }
Started == { w \in DOMAIN filteredEvents \cap DOMAIN inspected :
               /\ filteredEvents[w].action \in {startEvent, runningEvent}
               /\ Resolves(inspected[w]) }
NamesOf(ws) == { filteredEvents[w].name : w \in ws }

\* This cycle drained events, loaded the state and ran to its end.
CycleDone == cpc = "sleep" /\ drained # <<>> /\ ~loadErr

\* C2: once diff has run on a batch whose coalesced event for a workload is
\* Stop or Die, the job key that workload's Start/Running event was
\* published under (and that no Start/Running event of the batch stores
\* again) is not in the new target state.
C2_StoppedWorkloadRemoved ==
    cpc = "publish" =>
        \A w \in Stopped :
            LET n == filteredEvents[w].name IN
            (/\ n \in DOMAIN publishedBy
             /\ w \in publishedBy[n]
             /\ n \notin NamesOf(Lookups(filteredEvents)))
                => n \notin DOMAIN scrapeTargets

\* C3: after a cycle that loaded the state and published, the file holds
\* the loaded state without the job keys of the stopped/died workloads,
\* plus job key -> address for every started/running workload whose
\* metrics port resolved.
C3_PublishedStateIsDiff ==
    (cpc = "signal" /\ ~pubErr) =>
        LET pub == StateOf(file) IN
        /\ DOMAIN pub =
              ((DOMAIN loaded) \ NamesOf(Stopped)) \cup NamesOf(Started)
        /\ \A n \in DOMAIN pub :
              IF n \in NamesOf(Started)
              THEN \E w \in Started :
                      /\ filteredEvents[w].name = n
                      /\ pub[n] = ResolvedAddr(inspected[w])
              ELSE pub[n] = loaded[n]

\* C5: with svc-a persisted and Die of w1/svc-a the only drained event, the
\* cycle ends with a file of zero job entries and one reload POST.
C5_DieEmptiesState ==
    (/\ CycleDone
     /\ ~pubErr
     /\ loaded = [n \in {"svc-a"} |-> Addr32000]
     /\ Len(drained) = 1
     /\ drained[1].action = dieEvent
     /\ drained[1].containerID = "w1"
     /\ drained[1].name = "svc-a")
        => /\ file.kind = "doc"
           /\ file.ScrapeConfigs = <<>>
           /\ cyclePosts = 1

\* The cycle of C6: no file, no snapshot event, Start of w1/svc-a the only
\* event, the metrics port of w1 bound to host port 32000.
C6_Scenario ==
    /\ CycleDone
    /\ fileBefore = NoFile
    /\ pushed = drained
    /\ Len(drained) = 1
    /\ drained[1].action = startEvent
    /\ drained[1].containerID = "w1"
    /\ drained[1].name = "svc-a"
    /\ "w1" \in DOMAIN inspected
    /\ inspected["w1"] =
          InspectOk([x \in {metricsPort} |-> << Binding("32000") >>])

\* C6: that cycle computes {svc-a: host.docker.internal:32000}, sends
\* exactly one reload POST, and (its open and encode not failing) leaves
\* the file holding exactly that one job.
C6_StartPublishes ==
    C6_Scenario =>
        /\ scrapeTargets = [n \in {"svc-a"} |-> Addr32000]
        /\ cyclePosts = 1
        /\ posts = 1
        /\ ~pubErr =>
              /\ cycleWrites = 2
              /\ file = Doc(<< Job("svc-a", << Static(<< Addr32000 >>) >>) >>)

C6_Witness ==
    /\ C6_Scenario
    /\ ~pubErr
    /\ StateOf(file) = [n \in {"svc-a"} |-> Addr32000]

\* Whether getCurrentState reads a target state off a file.
Parses(f) ==
    /\ ~getCurrentState(f, FALSE).err
    /\ ~getCurrentState(f, FALSE).panic

\* C7: when the process is terminated in a cycle that started from a
\* readable file (no open or encode of the cycle having failed), the file
\* holds the target state the cycle started with, or the whole new one.
C7_KillLeavesWholeState ==
    (killed /\ ~pubErr /\ Parses(fileBefore)) =>
        /\ Parses(file)
        /\ \/ StateOf(file) = StateOf(fileBefore)
           \/ /\ cpc \in {"signal", "sleep"}
              /\ StateOf(file) = scrapeTargets

\* C8 as claimed: after the first successful publish that follows a failed
\* one, the file holds the state it would hold had no publish failed.
C8_SelfHealsToUnfailedState ==
    stale = "healed" => StateOf(file) = ideal

\* C8 as amended: after the first successful publish that follows a failed
\* one, the file is a whole document of this cycle's target state, in which
\* every job key that no event of this cycle names is exactly as this cycle
\* loaded it from the file the failed publish left.
C8_HealedFromLoadedState ==
    stale = "healed" =>
        LET pub == StateOf(file)
            touched == { e.name : e \in Range(drained) }
                           \cup { e.containerID : e \in Range(drained) }
        IN  /\ file.kind = "doc"
            /\ ~pubErr
            /\ pub = scrapeTargets
            /\ Len(file.ScrapeConfigs) = Cardinality(DOMAIN scrapeTargets)
            /\ \A n \in ((DOMAIN pub) \cup (DOMAIN loaded)) \ touched :
                  /\ n \in DOMAIN pub
                  /\ n \in DOMAIN loaded
                  /\ pub[n] = loaded[n]

\* C8 witness: the publish after a failed one succeeded, and the file
\* differs from the one an unfailing run would hold.
C8_Witness ==
    /\ stale = "healed"
    /\ StateOf(file) # ideal
    /\ DOMAIN loaded # {}

\* C9: no goroutine panics.
C9_NoPanic == ~panicked

\* The consumer is past getCurrentState in a cycle that drained events.
PastLoad ==
    \/ cpc \in {"diff", "publish", "encode", "signal"}
    \/ cpc = "sleep" /\ drained # <<>>

\* C10: a cycle whose load failed has returned with no write and no reload
\* request, the file as it was and none of its drained events back in the
\* eventLog; an unparseable file makes the load fail; a missing file loads
\* as the empty state and the cycle goes on to its reload request.
C10_LoadFailureAbortsCycle ==
    /\ loadErr =>
          /\ cpc = "sleep"
          /\ drained # <<>>
          /\ cycleWrites = 0
          /\ cyclePosts = 0
          /\ file = fileBefore
          /\ Range(drained) \cap Range(events) = {}
    /\ (PastLoad /\ fileBefore.kind = "garbage") => loadErr
    /\ (PastLoad /\ fileBefore.kind = "missing" /\ ~loadErr) =>
          /\ loaded = EmptyMap
          /\ cpc = "sleep" => cyclePosts = 1

\* C10 witness: a cycle drained an event, found the file unparseable and
\* returned, while a later event waits in the eventLog.
C10_Witness ==
    /\ loadErr
    /\ file.kind = "garbage"
    /\ events # <<>>

\* This cycle's flush returned nothing and consume has returned.
CycleIdle == cpc = "sleep" /\ cycles > 0 /\ drained = <<>>

\* C11: a cycle whose flush returned the empty sequence ends at once: the
\* flush step on an empty eventLog leaves the eventLog empty, the file and
\* the count of reload POSTs as they were and takes the consumer back to
\* its sleep; and once the cycle has ended it has read the file zero
\* times, opened or written it zero times, sent zero reload POSTs and the
\* file is the one the cycle started with.
C11_IdleCycleNoEffect ==
    /\ [](CycleIdle =>
            /\ cycleReads = 0
            /\ cycleWrites = 0
            /\ cyclePosts = 0
            /\ file = fileBefore
            /\ loaded = EmptyMap)
    /\ [][(cpc = "flushing" /\ cpc' # "flushing" /\ events = <<>>) =>
            /\ events' = <<>>
            /\ file' = file
            /\ posts' = posts
            /\ cpc' = "sleep"]_vars

\* C11 witness: the second cycle was idle, after a first one that drained
\* an event and wrote a document, and an event pushed since waits in the
\* eventLog.
C11_Witness ==
    /\ CycleIdle
    /\ cycles = 2
    /\ flushes[1] # <<>>
    /\ file.kind = "doc"
    /\ posts = 1
    /\ events # <<>>

\* ------------------------------------- publish, then getCurrentState
\* The job keys and addresses of the target states handed to publish: a
\* job key is a service name or, through the snapshot, any other string.
JobKeys == {"svc-a", "svc-b", ""}
Addrs == { Addr32000, HostPort(dockerHostAddress, "32001") }

\* Every target state over these keys and addresses, the empty one too.
StateInputs ==
    { m \in UNION { [ks -> Addrs] : ks \in SUBSET JobKeys } : TRUE }

\* consume has computed scrapeTargets and is about to call publish, while
\* a later event waits in the eventLog for the next cycle.
InitRound ==
    /\ stateMap \in StateInputs
    /\ file \in FileInputs
    /\ drained = << Event(stopEvent, "w3", "svc-b", 1) >>
    /\ events = << Event(stopEvent, "w3", "svc-b", 2) >>
    /\ mu = "free"
    /\ ppc = "stream"
    /\ pret = "stream"
    /\ containers = <<>>
    /\ idx = 1
    /\ pending = <<>>
    /\ created = 2
    /\ cpc = "publish"
    /\ cycles = 1
    /\ filteredEvents = applyEventFilter(drained)
    /\ loadErr = FALSE
    /\ pubErr = FALSE
    /\ posts = 0
    /\ panicked = FALSE
    /\ killed = FALSE
    /\ pushed = drained \o events
    /\ flushes = << drained >>
    /\ loaded = stateMap
    /\ inspected = EmptyMap
    /\ fileBefore = file
    /\ cyclePosts = 0
    /\ cycleReads = 1
    /\ cycleWrites = 0
    /\ stale = "clean"
    /\ ideal = stateMap
    /\ publishedBy = EmptyMap
    /\ published = <<>>

NextRound ==
    \/ PublishOpen
    \/ PublishEncode
    \/ SendSignal
    \/ ConsumeStart
    \/ FlushLock
    \/ FlushBody
    \/ ApplyEventFilter
    \/ GetCurrentState

SpecRound == InitRound /\ [][NextRound]_vars

\* C12: when publish(m) has written the file in full, the file read back
\* by getCurrentState is m; and when the next cycle's getCurrentState then
\* succeeds on that file, the state it returns is m.
C12_PublishLoadRoundTrip ==
    /\ (cpc = "signal" /\ ~pubErr) =>
          /\ published = << scrapeTargets >>
          /\ getCurrentState(file, FALSE) = Ok(scrapeTargets)
    /\ (cpc = "diff" /\ published # <<>>) => loaded = published[1]

\* C12 witness: a state of three job keys was published and the next cycle
\* loaded it.
C12_Witness ==
    /\ cpc = "diff"
    /\ cycles = 2
    /\ published # <<>>
    /\ DOMAIN published[1] = JobKeys
    /\ loaded = published[1]

\* ---------------------- one cycle on its own, up to the call of publish
\* Events in a window handed to one cycle.
MaxWindow == 2

\* The file a cycle may find: one left by a prior run or edited by hand,
\* or the document of any target state.
CycleFiles ==
    FileInputs
        \cup { Doc(promConf(m, CHOOSE o \in Orders(DOMAIN m) : TRUE)) :
                  m \in StateInputs }

\* consume has just flushed a window of events.
InitCycle ==
    /\ \E n \in 1..MaxWindow : drained \in Batches(n)
    /\ file \in CycleFiles
    /\ events = <<>>
    /\ mu = "free"
    /\ ppc = "stream"
    /\ pret = "stream"
    /\ containers = <<>>
    /\ idx = 1
    /\ pending = <<>>
    /\ created = Len(drained)
    /\ cpc = "filter"
    /\ cycles = 1
    /\ filteredEvents = EmptyMap
    /\ stateMap = EmptyMap
    /\ loadErr = FALSE
    /\ pubErr = FALSE
    /\ posts = 0
    /\ panicked = FALSE
    /\ killed = FALSE
    /\ pushed = drained
    /\ flushes = << drained >>
    /\ loaded = EmptyMap
    /\ inspected = EmptyMap
    /\ fileBefore = file
    /\ cyclePosts = 0
    /\ cycleReads = 0
    /\ cycleWrites = 0
    /\ stale = "clean"
    /\ ideal = EmptyMap
    /\ publishedBy = EmptyMap
    /\ published = <<>>

NextCycle ==
    \/ ApplyEventFilter
    \/ GetCurrentState
    \/ Diff

SpecCycle == InitCycle /\ [][NextCycle]_vars

\* diff on the empty event map
diffEmpty(s) == diff(EmptyMap, s, <<>>, EmptyMap)

\* C13: diff with an empty batch returns the state it was given: applied
\* to the state getCurrentState loaded, and applied to the state a first
\* diff returned, for every loaded state and every coalesced batch.
C13_DiffEmptyBatchIdentity ==
    /\ cpc = "diff" => diffEmpty(stateMap) = Ok(stateMap)
    /\ cpc = "publish" => diffEmpty(scrapeTargets) = Ok(scrapeTargets)

\* C13 witness: a first diff has changed a loaded state of two job keys,
\* and diff with the empty batch returns the changed state.
C13_Witness ==
    /\ cpc = "publish"
    /\ Cardinality(DOMAIN loaded) = 2
    /\ scrapeTargets # loaded
    /\ diffEmpty(scrapeTargets).val = scrapeTargets

\* The consumer is in consume, past its call of flush.
PastFlush ==
    cpc \in {"filter", "load", "diff", "publish", "encode", "signal"}

\* C14: the lock is held by the producer exactly while it is at push's
\* append and by the consumer exactly while it is at flush's copy-and-
\* clear, so never while consume filters, loads, diffs, publishes or
\* sends the reload request; a holder's next step releases the lock
\* without waiting for anything; and a push that has started can take the
\* lock at every point of a cycle other than the copy-and-clear.
C14_LockOnlyInPushAndFlush ==
    /\ (mu = "producer") <=> (ppc = "append")
    /\ (mu = "consumer") <=> (cpc = "flushing")
    /\ PastFlush => mu # "consumer"
    /\ (Alive /\ cpc = "flushing") => ENABLED FlushBody
    /\ (Alive /\ ppc = "append") => ENABLED PushAppend
    /\ (Alive /\ ppc = "push" /\ cpc # "flushing") => ENABLED PushLock

\* C14 witness: the producer holds the lock at its append while the
\* consumer is between truncating the file and encoding into it.
C14_Witness ==
    /\ cpc = "encode"
    /\ mu = "producer"
    /\ ppc = "append"
    /\ Alive

\* C15: a cycle sends at most one reload POST; a cycle that drained
\* events, loaded the state and returned has sent exactly one, whether its
\* publish failed or not; the POST is sent by the step that follows the
\* publish attempt (the open failed, or the encode was attempted), and the
\* cycle returns on it whatever its outcome.
C15_ReloadAfterEveryPublish ==
    /\ [](cyclePosts <= 1)
    /\ [](CycleDone => cyclePosts = 1)
    /\ []((PastFlush /\ cpc # "signal") => cyclePosts = 0)
    /\ [](cpc = "signal" =>
            /\ cyclePosts = 0
            /\ cycleReads = 1
            /\ IF pubErr
               THEN cycleWrites \in {0, 2}
               ELSE cycleWrites = 2 /\ published = << scrapeTargets >>)
    /\ [][cyclePosts' > cyclePosts => (cpc = "signal" /\ cpc' = "sleep")]_vars

\* C15 witness: a cycle whose open failed has sent its one POST and
\* returned, the file untouched.
C15_Witness ==
    /\ CycleDone
    /\ pubErr
    /\ cycleWrites = 0
    /\ cyclePosts = 1
    /\ file = fileBefore

\* C16: the target state diff hands to publish is the same for every order
\* in which the range over the coalesced events may run, given the drained
\* events, the loaded state and the inspect results of this cycle.
C16_CycleDeterministic ==
    cpc = "publish" =>
        \A order \in Orders(DOMAIN filteredEvents) :
            diff(filteredEvents, loaded, order, inspected) = Ok(scrapeTargets)

\* The drained events whose action name the eventTable holds.
Recognized(evs) ==
    SelectSeq(evs, LAMBDA e :
        e.action \in {startEvent, runningEvent, stopEvent, dieEvent})

\* C17: the target state diff hands to publish is the one diff returns on
\* the window without its events of unrecognized action name: for some
\* order of the range and for every inspect result of the workloads only
\* that window looks up (those of this cycle being as they were), unless
\* that diff panics.
C17_UnknownActionIsNoEvent ==
    cpc = "publish" =>
        LET ref == applyEventFilter(Recognized(drained)) IN
        \E order \in Orders(DOMAIN ref) :
            \A ins \in [Lookups(ref) -> InspectInputs] :
                (\A w \in DOMAIN inspected \cap DOMAIN ins :
                     ins[w] = inspected[w])
                    => LET r == diff(ref, loaded, order, ins) IN
                       r.panic \/ r = Ok(scrapeTargets)

\* The workloads diff looked up in this cycle without getting an address.
Unresolved == { w \in DOMAIN inspected : ~Resolves(inspected[w]) }

\* C18: when diff looks up a Start/Running workload and gets no address
\* (the inspection fails, or the metrics port has no host binding), diff
\* runs on to its return, the entry under that workload's name is as it
\* was loaded unless another event of the batch stores or deletes under
\* that key, and every workload of the batch that did resolve is in the
\* state diff returns.
C18_UnresolvedSkipped ==
    Unresolved # {} =>
        /\ ~(panicked /\ cpc = "diff")
        /\ cpc = "publish" =>
              /\ \A w \in Unresolved :
                    LET n == filteredEvents[w].name IN
                    (n \notin NamesOf(Started) /\ n \notin Stopped) =>
                        /\ n \in DOMAIN scrapeTargets <=> n \in DOMAIN loaded
                        /\ n \in DOMAIN loaded => scrapeTargets[n] = loaded[n]
              /\ \A v \in Started :
                    filteredEvents[v].name \in DOMAIN scrapeTargets

\* The producer thread is in eventStreamerImpl.produceEventsFor.
InStream ==
    \/ ppc = "stream"
    \/ ppc \in {"push", "append"} /\ pret = "stream"

\* The producer thread is in scraperImpl.produceEventsFor.
InScraper == ~InStream

\* C19: the producer thread is always inside one of the two producers;
\* the scraper's listing is never run again once left; when the thread is
\* in the event streamer, the scraper has handled every listed container
\* and the thread stays in the streamer for ever; and in the order of
\* completed pushes no stream event comes before a snapshot Running event.
C19_SnapshotThenStream ==
    /\ [](ppc \in {"list", "scan", "stream", "push", "append"})
    /\ [](InStream => idx > Len(containers))
    /\ [](\A i, j \in DOMAIN pushed :
            (i < j /\ pushed[j].action = runningEvent)
                => pushed[i].action = runningEvent)
    /\ [](InScraper =>
            \A i \in DOMAIN pushed : pushed[i].action = runningEvent)
    /\ [][ppc' = "list" => ppc = "list"]_vars
    /\ [][InStream => InStream']_vars

\* C19 witness: a snapshot Running event and then a stream event have
\* arrived, the Running event first, and the thread is in the streamer.
C19_Witness ==
    /\ InStream
    /\ Len(pushed) = 2
    /\ pushed[1].action = runningEvent
    /\ pushed[2].action = stopEvent
    /\ Len(containers) = 2

\* ------------------------------------------- the process left running
\* Every step of the two threads; the process is not terminated from
\* outside.
NextLive ==
    \/ ScraperList
    \/ ScraperNext
    \/ StreamMsg
    \/ StreamErr
    \/ PushLock
    \/ PushAppend
    \/ ConsumeStart
    \/ FlushLock
    \/ FlushBody
    \/ ApplyEventFilter
    \/ GetCurrentState
    \/ Diff
    \/ PublishOpen
    \/ PublishEncode
    \/ SendSignal

\* The consumer goroutine is scheduled and each of its calls returns (the
\* sleep ends, the inspect and the POST have a 500 ms timeout); a thread
\* holding the lock runs on to its Unlock; a thread waiting in Lock gets
\* the lock although the other takes it again and again (sync.Mutex hands
\* the lock to a waiter starved for 1 ms).
FairLive ==
    /\ WF_vars(ConsumeStart)
    /\ SF_vars(FlushLock)
    /\ WF_vars(FlushBody)
    /\ WF_vars(ApplyEventFilter)
    /\ WF_vars(GetCurrentState)
    /\ WF_vars(Diff)
    /\ WF_vars(PublishOpen)
    /\ WF_vars(PublishEncode)
    /\ WF_vars(SendSignal)
    /\ WF_vars(PushAppend)

SpecLive == Init /\ [][NextLive]_vars /\ FairLive

\* The event created as the t-th is in the eventLog; a flush returned it.
Buffered(t) == \E i \in DOMAIN events : events[i].recordedAt = t
Flushed(t) ==
    \E k \in DOMAIN flushes :
        \E i \in DOMAIN flushes[k] : flushes[k][i].recordedAt = t

\* A flush is still to come within the wake-ups the model follows.
FlushAhead == cycles < MaxCycles \/ cpc \in {"flush", "flushing"}

\* C20: every event in the eventLog, pushed before a cycle or during one,
\* is eventually returned by a flush (for as long as the model follows
\* the timer loop).
C20_EveryEventFlushed ==
    \A t \in 1..MaxPush : (Buffered(t) /\ FlushAhead) ~> Flushed(t)

====
